---- MODULE Spec2Model ----
(***************************************************************************)
(* Model of the marine species canister (dfinity_js_backend/src/index.ts): *)
(* two StableBTreeMaps, taxonomyStorage and marineSpecieStorage, and the   *)
(* query and update methods of the exported Canister.                      *)
(***************************************************************************)
EXTENDS Integers, Sequences, FiniteSets, TLC

VARIABLES taxonomyStorage, marineSpecieStorage, now, last, snapshot, issued, writes

vars == <<taxonomyStorage, marineSpecieStorage, now, last, snapshot, issued, writes>>

(* ------------------------------ bounds --------------------------------- *)

\* number of distinct values uuidv4() can return in the model
NumIds == 2

\* last instant the clock of the model reaches
MaxTime == 1

\* number of update calls that succeed in one run of the model
MaxWrites == 4

Ids == 1..NumIds

Times == 0..MaxTime

(* ------------------------------- text ---------------------------------- *)
\* A text is a sequence of one-letter strings.

Min(S) == CHOOSE x \in S : \A y \in S : x <= y

\* UTF-16 code unit of a letter
CodeUnit(c) ==
    CASE c = "A" -> 65
      [] c = "B" -> 66
      [] c = "a" -> 97
      [] c = "b" -> 98

LowerChar(c) ==
    CASE c = "A" -> "a"
      [] c = "B" -> "b"
      [] OTHER -> c

\* String.prototype.toLowerCase
toLowerCase(s) == [i \in 1..Len(s) |-> LowerChar(s[i])]

\* String.prototype.includes
includes(s, sub) ==
    \E i \in 0..(Len(s) - Len(sub)) : SubSeq(s, i + 1, i + Len(sub)) = sub

\* String.prototype.localeCompare, comparing code units left to right
localeCompare(a, b) ==
    LET n == IF Len(a) < Len(b) THEN Len(a) ELSE Len(b)
        diff == {i \in 1..n : a[i] # b[i]}
    IN  IF diff = {}
        THEN (IF Len(a) < Len(b) THEN -1 ELSE IF Len(a) > Len(b) THEN 1 ELSE 0)
        ELSE (IF CodeUnit(a[Min(diff)]) < CodeUnit(b[Min(diff)]) THEN -1 ELSE 1)

(* ------------------------------- dates --------------------------------- *)
\* new Date().toISOString(): the instant as a fixed-width text of digits
toISOString(t) == <<t \div 10, t % 10>>

\* new Date(text).getTime()
getTime(iso) == iso[1] * 10 + iso[2]

(* ------------------------------ payloads ------------------------------- *)

TaxonomyPayloads ==
    { [kingdom |-> <<"A">>, phylum |-> <<"B">>, taxon_class |-> <<"a", "B">>,
       order |-> <<"b">>, family |-> <<"a">>, genus |-> <<"B", "a">>,
       species |-> <<"b">>],
      [kingdom |-> <<"b">>, phylum |-> <<"a">>, taxon_class |-> <<"A">>,
       order |-> <<"a">>, family |-> <<"B">>, genus |-> <<"a">>,
       species |-> <<"A">>] }

MarineSpeciePayloads ==
    { [name |-> <<"A", "b">>, description |-> <<"a">>] }

\* arguments of the single-field updates
Texts == { <<"b">> }

\* arguments of the searches
SearchTexts == { <<"a">>, <<"a", "b">> }

(* ------------------------- objects and results ------------------------- *)

\* { ...a, ...b }
Spread(a, b) ==
    [k \in (DOMAIN a) \cup (DOMAIN b) |-> IF k \in DOMAIN b THEN b[k] ELSE a[k]]

\* typeof payload !== "object" || Object.keys(payload).length === 0
isInvalidPayload(payload) == DOMAIN payload = {}

None == [None |-> "null"]

Some(v) == [Some |-> v]

Ok(v) == [Ok |-> v]

Err(m) == [Err |-> m]

NotFound(msg, id) == [NotFound |-> [text |-> msg, id |-> id]]

InvalidPayload == [InvalidPayload |-> "invalid payload"]

isOk(res) == "Ok" \in DOMAIN res

isNotFound(res) == "Err" \in DOMAIN res /\ "NotFound" \in DOMAIN res.Err

(* --------------------------- StableBTreeMap ---------------------------- *)
\* A map is the sequence of its entries in ascending key order.

keys(map) == {map[i].key : i \in 1..Len(map)}

\* StableBTreeMap.get
get(map, k) ==
    IF k \in keys(map)
    THEN Some(map[CHOOSE i \in 1..Len(map) : map[i].key = k].value)
    ELSE None

\* StableBTreeMap.insert
insert(map, k, v) ==
    SelectSeq(map, LAMBDA e : e.key < k)
        \o <<[key |-> k, value |-> v]>>
        \o SelectSeq(map, LAMBDA e : e.key > k)

\* StableBTreeMap.remove
remove(map, k) == SelectSeq(map, LAMBDA e : e.key # k)

\* StableBTreeMap.values
values(map) == [i \in 1..Len(map) |-> map[i].value]

(* ------------------------------- arrays -------------------------------- *)

\* Array.prototype.sort (stable); cmp[i][j] is what the comparator returns
\* for (arr[i], arr[j])
sort(arr, cmp) ==
    LET rank(i) == Cardinality({j \in 1..Len(arr) :
                        \/ cmp[j][i] < 0
                        \/ cmp[j][i] = 0 /\ j < i}) + 1
    IN  [p \in 1..Len(arr) |-> arr[CHOOSE i \in 1..Len(arr) : rank(i) = p]]

\* Array.prototype.filter; keep[i] is what the callback returns for arr[i]
filter(arr, keep) ==
    LET kept == {i \in 1..Len(arr) : keep[i]}
    IN  [p \in 1..Cardinality(kept) |->
            arr[CHOOSE i \in kept : Cardinality({j \in kept : j < i}) = p - 1]]

(* ------------------------------ handlers ------------------------------- *)
\* A handler yields the two maps as the call leaves them and the value it
\* returns.  uuid, t, t1 and t2 stand for what uuidv4() and new Date() return
\* during the call.

Out(tax, spec, res) ==
    [taxonomyStorage |-> tax, marineSpecieStorage |-> spec, res |-> res]

getTaxonomies ==
    Out(taxonomyStorage, marineSpecieStorage, values(taxonomyStorage))

getTaxonomy(id) ==
    LET taxonomyOpt == get(taxonomyStorage, id)
    IN  IF "None" \in DOMAIN taxonomyOpt
        THEN Out(taxonomyStorage, marineSpecieStorage,
                 Err(NotFound("taxonomy not found", id)))
        ELSE Out(taxonomyStorage, marineSpecieStorage, Ok(taxonomyOpt.Some))

\* addTaxonomy with the two readings of the clock exchanged
addTaxonomySwappedStamps(payload, uuid, t1, t2) ==
    IF isInvalidPayload(payload)
    THEN Out(taxonomyStorage, marineSpecieStorage, Err(InvalidPayload))
    ELSE LET taxonomy ==
                 Spread(Spread([id |-> uuid], payload),
                        [created_at |-> toISOString(t2),
                         updated_at |-> toISOString(t1)])
         IN  Out(insert(taxonomyStorage, taxonomy.id, taxonomy),
                 marineSpecieStorage, Ok(taxonomy))

addTaxonomy(payload, uuid, t1, t2) ==
    IF isInvalidPayload(payload)
    THEN Out(taxonomyStorage, marineSpecieStorage, Err(InvalidPayload))
    ELSE LET taxonomy ==
                 Spread(Spread([id |-> uuid], payload),
                        [created_at |-> toISOString(t1),
                         updated_at |-> toISOString(t2)])
         IN  Out(insert(taxonomyStorage, taxonomy.id, taxonomy),
                 marineSpecieStorage, Ok(taxonomy))

\* updateTaxonomy that also refreshes the copies embedded in marine species
updateTaxonomyCascading(id, payload, t) ==
    LET taxonomyOpt == get(taxonomyStorage, id)
    IN  IF "None" \in DOMAIN taxonomyOpt
        THEN Out(taxonomyStorage, marineSpecieStorage,
                 Err(NotFound("cannot update the taxonomy: taxonomy not found", id)))
        ELSE LET updatedTaxonomy ==
                     Spread(Spread(taxonomyOpt.Some, payload),
                            [updated_at |-> toISOString(t)])
             IN  Out(insert(taxonomyStorage, id, updatedTaxonomy),
                     [i \in 1..Len(marineSpecieStorage) |->
                         IF marineSpecieStorage[i].value.taxonomy.id = id
                         THEN [marineSpecieStorage[i] EXCEPT
                                   !.value.taxonomy = updatedTaxonomy]
                         ELSE marineSpecieStorage[i]],
                     Ok(updatedTaxonomy))

\* updateTaxonomy that stamps created_at as well as updated_at
updateTaxonomyRestamping(id, payload, t) ==
    LET taxonomyOpt == get(taxonomyStorage, id)
    IN  IF "None" \in DOMAIN taxonomyOpt
        THEN Out(taxonomyStorage, marineSpecieStorage,
                 Err(NotFound("cannot update the taxonomy: taxonomy not found", id)))
        ELSE LET updatedTaxonomy ==
                     Spread(Spread(taxonomyOpt.Some, payload),
                            [created_at |-> toISOString(t),
                             updated_at |-> toISOString(t)])
             IN  Out(insert(taxonomyStorage, id, updatedTaxonomy),
                     marineSpecieStorage, Ok(updatedTaxonomy))

updateTaxonomy(id, payload, t) ==
    LET taxonomyOpt == get(taxonomyStorage, id)
    IN  IF "None" \in DOMAIN taxonomyOpt
        THEN Out(taxonomyStorage, marineSpecieStorage,
                 Err(NotFound("cannot update the taxonomy: taxonomy not found", id)))
        ELSE LET updatedTaxonomy ==
                     Spread(Spread(taxonomyOpt.Some, payload),
                            [updated_at |-> toISOString(t)])
             IN  Out(insert(taxonomyStorage, id, updatedTaxonomy),
                     marineSpecieStorage, Ok(updatedTaxonomy))

deleteTaxonomy(id) ==
    LET deletedTaxonomyOpt == get(taxonomyStorage, id)
    IN  IF "None" \in DOMAIN deletedTaxonomyOpt
        THEN Out(taxonomyStorage, marineSpecieStorage,
                 Err(NotFound("cannot delete the taxonomy: taxonomy not found", id)))
        ELSE Out(remove(taxonomyStorage, id), marineSpecieStorage,
                 Ok(deletedTaxonomyOpt.Some))

getMarineSpecies ==
    Out(taxonomyStorage, marineSpecieStorage, values(marineSpecieStorage))

getMarineSpecie(id) ==
    LET marineSpecieOpt == get(marineSpecieStorage, id)
    IN  IF "None" \in DOMAIN marineSpecieOpt
        THEN Out(taxonomyStorage, marineSpecieStorage,
                 Err(NotFound("marine specie not found", id)))
        ELSE Out(taxonomyStorage, marineSpecieStorage, Ok(marineSpecieOpt.Some))

\* addMarineSpecie without the lookup guard: the record is stored whether or
\* not taxonomyId resolves
addMarineSpecieUnguarded(taxonomyId, payload, uuid, t1, t2) ==
    LET taxonomyOpt == get(taxonomyStorage, taxonomyId)
        marineSpecie ==
            Spread(Spread([id |-> uuid, taxonomy |-> taxonomyOpt], payload),
                   [created_at |-> toISOString(t1),
                    updated_at |-> toISOString(t2)])
    IN  IF "None" \in DOMAIN taxonomyOpt
        THEN Out(taxonomyStorage,
                 insert(marineSpecieStorage, marineSpecie.id, marineSpecie),
                 Err(NotFound("cannot add marine specie: taxonomy not found",
                              taxonomyId)))
        ELSE Out(taxonomyStorage,
                 insert(marineSpecieStorage, marineSpecie.id,
                        [marineSpecie EXCEPT !.taxonomy = taxonomyOpt.Some]),
                 Ok([marineSpecie EXCEPT !.taxonomy = taxonomyOpt.Some]))

addMarineSpecie(taxonomyId, payload, uuid, t1, t2) ==
    IF isInvalidPayload(payload)
    THEN Out(taxonomyStorage, marineSpecieStorage, Err(InvalidPayload))
    ELSE LET taxonomyOpt == get(taxonomyStorage, taxonomyId)
         IN  IF "None" \in DOMAIN taxonomyOpt
             THEN Out(taxonomyStorage, marineSpecieStorage,
                      Err(NotFound("cannot add marine specie: taxonomy not found",
                                   taxonomyId)))
             ELSE LET marineSpecie ==
                          Spread(Spread([id |-> uuid, taxonomy |-> taxonomyOpt.Some],
                                        payload),
                                 [created_at |-> toISOString(t1),
                                  updated_at |-> toISOString(t2)])
                  IN  Out(taxonomyStorage,
                          insert(marineSpecieStorage, marineSpecie.id, marineSpecie),
                          Ok(marineSpecie))

updateMarineSpecie(id, payload, t) ==
    LET marineSpecieOpt == get(marineSpecieStorage, id)
    IN  IF "None" \in DOMAIN marineSpecieOpt
        THEN Out(taxonomyStorage, marineSpecieStorage,
                 Err(NotFound("cannot update the marine specie: marine specie not found",
                              id)))
        ELSE LET updatedMarineSpecie ==
                     Spread(Spread(marineSpecieOpt.Some, payload),
                            [updated_at |-> toISOString(t)])
             IN  Out(taxonomyStorage,
                     insert(marineSpecieStorage, id, updatedMarineSpecie),
                     Ok(updatedMarineSpecie))

\* deleteMarineSpecie that returns the record and leaves it in the map
deleteMarineSpecieKeeping(id) ==
    LET deletedMarineSpecieOpt == get(marineSpecieStorage, id)
    IN  IF "None" \in DOMAIN deletedMarineSpecieOpt
        THEN Out(taxonomyStorage, marineSpecieStorage,
                 Err(NotFound("cannot delete the marine specie: marine specie not found",
                              id)))
        ELSE Out(taxonomyStorage, marineSpecieStorage,
                 Ok(deletedMarineSpecieOpt.Some))

deleteMarineSpecie(id) ==
    LET deletedMarineSpecieOpt == get(marineSpecieStorage, id)
    IN  IF "None" \in DOMAIN deletedMarineSpecieOpt
        THEN Out(taxonomyStorage, marineSpecieStorage,
                 Err(NotFound("cannot delete the marine specie: marine specie not found",
                              id)))
        ELSE Out(taxonomyStorage, remove(marineSpecieStorage, id),
                 Ok(deletedMarineSpecieOpt.Some))

\* the taxonomy of a marine specie that has none
NoTaxonomy ==
    [id |-> 0, kingdom |-> <<>>, phylum |-> <<>>, taxon_class |-> <<>>,
     order |-> <<>>, family |-> <<>>, genus |-> <<>>, species |-> <<>>,
     created_at |-> <<>>, updated_at |-> <<>>]

\* removeTaxonomyFromMarineSpecie that clears the embedded taxonomy
removeTaxonomyFromMarineSpecieClearing(marineSpecieId, taxonomyId) ==
    LET marineSpecieOpt == get(marineSpecieStorage, marineSpecieId)
    IN  IF "None" \in DOMAIN marineSpecieOpt
        THEN Out(taxonomyStorage, marineSpecieStorage,
                 Err(NotFound(
                     "cannot remove taxonomy from marine specie: marine specie not found", marineSpecieId)))
        ELSE LET taxonomyOpt == get(taxonomyStorage, taxonomyId)
             IN  IF "None" \in DOMAIN taxonomyOpt
                 THEN Out(taxonomyStorage, marineSpecieStorage,
                          Err(NotFound(
                     "cannot remove taxonomy from marine specie: taxonomy not found", taxonomyId)))
                 ELSE LET marineSpecie ==
                              [marineSpecieOpt.Some EXCEPT !.taxonomy = NoTaxonomy]
                      IN  Out(taxonomyStorage,
                              insert(marineSpecieStorage, marineSpecieId, marineSpecie),
                              Ok(marineSpecie))

removeTaxonomyFromMarineSpecie(marineSpecieId, taxonomyId) ==
    LET marineSpecieOpt == get(marineSpecieStorage, marineSpecieId)
    IN  IF "None" \in DOMAIN marineSpecieOpt
        THEN Out(taxonomyStorage, marineSpecieStorage,
                 Err(NotFound(
                     "cannot remove taxonomy from marine specie: marine specie not found", marineSpecieId)))
        ELSE LET taxonomyOpt == get(taxonomyStorage, taxonomyId)
             IN  IF "None" \in DOMAIN taxonomyOpt
                 THEN Out(taxonomyStorage, marineSpecieStorage,
                          Err(NotFound(
                     "cannot remove taxonomy from marine specie: taxonomy not found", taxonomyId)))
                 ELSE LET marineSpecie ==
                              [marineSpecieOpt.Some EXCEPT !.taxonomy = taxonomyOpt.Some]
                      IN  Out(taxonomyStorage,
                              insert(marineSpecieStorage, marineSpecieId, marineSpecie),
                              Ok(marineSpecie))

\* addTaxonomyToMarineSpecie that assigns and stores before it looks at the
\* result of the taxonomy lookup
addTaxonomyToMarineSpecieEager(marineSpecieId, taxonomyId) ==
    LET marineSpecieOpt == get(marineSpecieStorage, marineSpecieId)
    IN  IF "None" \in DOMAIN marineSpecieOpt
        THEN Out(taxonomyStorage, marineSpecieStorage,
                 Err(NotFound(
                     "cannot add taxonomy to marine specie: marine specie not found", marineSpecieId)))
        ELSE LET taxonomyOpt == get(taxonomyStorage, taxonomyId)
                 marineSpecie ==
                     [marineSpecieOpt.Some EXCEPT !.taxonomy =
                         IF "None" \in DOMAIN taxonomyOpt
                         THEN NoTaxonomy ELSE taxonomyOpt.Some]
             IN  IF "None" \in DOMAIN taxonomyOpt
                 THEN Out(taxonomyStorage,
                          insert(marineSpecieStorage, marineSpecieId, marineSpecie),
                          Err(NotFound(
                     "cannot add taxonomy to marine specie: taxonomy not found", taxonomyId)))
                 ELSE Out(taxonomyStorage,
                          insert(marineSpecieStorage, marineSpecieId, marineSpecie),
                          Ok(marineSpecie))

addTaxonomyToMarineSpecie(marineSpecieId, taxonomyId) ==
    LET marineSpecieOpt == get(marineSpecieStorage, marineSpecieId)
    IN  IF "None" \in DOMAIN marineSpecieOpt
        THEN Out(taxonomyStorage, marineSpecieStorage,
                 Err(NotFound(
                     "cannot add taxonomy to marine specie: marine specie not found", marineSpecieId)))
        ELSE LET taxonomyOpt == get(taxonomyStorage, taxonomyId)
             IN  IF "None" \in DOMAIN taxonomyOpt
                 THEN Out(taxonomyStorage, marineSpecieStorage,
                          Err(NotFound(
                     "cannot add taxonomy to marine specie: taxonomy not found", taxonomyId)))
                 ELSE LET marineSpecie ==
                              [marineSpecieOpt.Some EXCEPT !.taxonomy = taxonomyOpt.Some]
                      IN  Out(taxonomyStorage,
                              insert(marineSpecieStorage, marineSpecieId, marineSpecie),
                              Ok(marineSpecie))

byKingdom(arr) ==
    [i \in 1..Len(arr) |-> [j \in 1..Len(arr) |->
        localeCompare(arr[i].taxonomy.kingdom, arr[j].taxonomy.kingdom)]]

byKingdomDesc(arr) ==
    [i \in 1..Len(arr) |-> [j \in 1..Len(arr) |->
        localeCompare(arr[j].taxonomy.kingdom, arr[i].taxonomy.kingdom)]]

byTimeOfCreation(arr) ==
    [i \in 1..Len(arr) |-> [j \in 1..Len(arr) |->
        getTime(arr[i].created_at) - getTime(arr[j].created_at)]]

sortMarineSpeciesByTaxonomyKingdom ==
    LET marineSpecies == values(marineSpecieStorage)
    IN  Out(taxonomyStorage, marineSpecieStorage, sort(marineSpecies, byKingdom(marineSpecies)))

\* sortMarineSpeciesByTaxonomyKingdomDesc sorting the entries of the map
\* itself instead of a copy of its values
sortMarineSpeciesByTaxonomyKingdomDescInPlace ==
    LET sorted == sort(marineSpecieStorage, byKingdomDesc(values(marineSpecieStorage)))
    IN  Out(taxonomyStorage, sorted, values(sorted))

sortMarineSpeciesByTaxonomyKingdomDesc ==
    LET marineSpecies == values(marineSpecieStorage)
    IN  Out(taxonomyStorage, marineSpecieStorage, sort(marineSpecies, byKingdomDesc(marineSpecies)))

searchMarineSpeciesByTaxonomyKingdomOrPhylum(searchText) ==
    LET marineSpecies == values(marineSpecieStorage)
        keep ==
            [i \in 1..Len(marineSpecies) |->
                LET marineSpecie == marineSpecies[i]
                IN  \/ toLowerCase(marineSpecie.taxonomy.kingdom)
                           = toLowerCase(searchText)
                    \/ toLowerCase(marineSpecie.taxonomy.phylum)
                           = toLowerCase(searchText)]
    IN  Out(taxonomyStorage, marineSpecieStorage, filter(marineSpecies, keep))

sortMarineSpeciesByTimeOfCreation ==
    LET marineSpecies == values(marineSpecieStorage)
    IN  Out(taxonomyStorage, marineSpecieStorage, sort(marineSpecies, byTimeOfCreation(marineSpecies)))

\* updateMarineSpecieName spreading a whole payload, with an empty description
updateMarineSpecieNameWholePayload(id, name, t) ==
    LET marineSpecieOpt == get(marineSpecieStorage, id)
    IN  IF "None" \in DOMAIN marineSpecieOpt
        THEN Out(taxonomyStorage, marineSpecieStorage,
                 Err(NotFound("cannot update the marine specie: marine specie not found",
                              id)))
        ELSE LET updatedMarineSpecie ==
                     Spread(Spread(marineSpecieOpt.Some,
                                   [name |-> name, description |-> <<>>]),
                            [updated_at |-> toISOString(t)])
             IN  Out(taxonomyStorage,
                     insert(marineSpecieStorage, id, updatedMarineSpecie),
                     Ok(updatedMarineSpecie))

updateMarineSpecieName(id, name, t) ==
    LET marineSpecieOpt == get(marineSpecieStorage, id)
    IN  IF "None" \in DOMAIN marineSpecieOpt
        THEN Out(taxonomyStorage, marineSpecieStorage,
                 Err(NotFound("cannot update the marine specie: marine specie not found",
                              id)))
        ELSE LET updatedMarineSpecie ==
                     Spread(Spread(marineSpecieOpt.Some, [name |-> name]),
                            [updated_at |-> toISOString(t)])
             IN  Out(taxonomyStorage,
                     insert(marineSpecieStorage, id, updatedMarineSpecie),
                     Ok(updatedMarineSpecie))

updateMarineSpecieDescription(id, description, t) ==
    LET marineSpecieOpt == get(marineSpecieStorage, id)
    IN  IF "None" \in DOMAIN marineSpecieOpt
        THEN Out(taxonomyStorage, marineSpecieStorage,
                 Err(NotFound("cannot update the marine specie: marine specie not found",
                              id)))
        ELSE LET updatedMarineSpecie ==
                     Spread(Spread(marineSpecieOpt.Some, [description |-> description]),
                            [updated_at |-> toISOString(t)])
             IN  Out(taxonomyStorage,
                     insert(marineSpecieStorage, id, updatedMarineSpecie),
                     Ok(updatedMarineSpecie))

searchMarineSpeciesByName(name) ==
    LET marineSpecies == values(marineSpecieStorage)
        keep ==
            [i \in 1..Len(marineSpecies) |->
                LET marineSpecie == marineSpecies[i]
                IN  includes(toLowerCase(marineSpecie.name), toLowerCase(name))]
    IN  Out(taxonomyStorage, marineSpecieStorage, filter(marineSpecies, keep))

searchMarineSpeciesByGenus(genus) ==
    LET marineSpecies == values(marineSpecieStorage)
        keep ==
            [i \in 1..Len(marineSpecies) |->
                LET marineSpecie == marineSpecies[i]
                IN  includes(toLowerCase(marineSpecie.taxonomy.genus), toLowerCase(genus))]
    IN  Out(taxonomyStorage, marineSpecieStorage, filter(marineSpecies, keep))

searchTaxonomiesByClass(taxonClass) ==
    LET taxonomies == values(taxonomyStorage)
        keep ==
            [i \in 1..Len(taxonomies) |->
                LET taxonomy == taxonomies[i]
                IN  includes(toLowerCase(taxonomy.taxon_class), toLowerCase(taxonClass))]
    IN  Out(taxonomyStorage, marineSpecieStorage, filter(taxonomies, keep))

(* ------------------------------- calls --------------------------------- *)
\* The host runs one call at a time, to completion.  last is the call that
\* ran last: its method, its arguments, the value it returned, and whether it
\* repeats the call before it.  now is the last reading of the clock.
\* snapshot[id] is the taxonomy record read from taxonomyStorage by the call
\* that last associated marine specie id; issued is the set of ids the adds
\* on each map have returned; writes counts the update calls that succeeded.

Return(op, args, out) ==
    /\ taxonomyStorage' = out.taxonomyStorage
    /\ marineSpecieStorage' = out.marineSpecieStorage
    /\ last' = [op |-> op, args |-> args, res |-> out.res,
                repeat |-> (last.op = op /\ last.args = args)]

\* a query method
Query(op, args, out) ==
    /\ Return(op, args, out)
    /\ UNCHANGED <<now, snapshot, issued, writes>>

\* an update method; t is the last reading of the clock the call makes when
\* it succeeds
Update(op, args, out, t) ==
    /\ writes < MaxWrites
    /\ Return(op, args, out)
    /\ now' = IF isOk(out.res) THEN t ELSE now
    /\ writes' = IF isOk(out.res) THEN writes + 1 ELSE writes

Init ==
    /\ taxonomyStorage = <<>>
    /\ marineSpecieStorage = <<>>
    /\ now = 0
    /\ last = [op |-> "init", args |-> <<>>, res |-> None, repeat |-> FALSE]
    /\ snapshot = [id \in Ids |-> None]
    /\ issued = [taxonomy |-> {}, marineSpecie |-> {}]
    /\ writes = 0

GetTaxonomies == Query("getTaxonomies", <<>>, getTaxonomies)

GetTaxonomy == \E id \in Ids : Query("getTaxonomy", <<id>>, getTaxonomy(id))

\* uuidv4() takes its bytes from Math.random() (the getRandomValues of the
\* file) and the handler inserts without a lookup: uuid is any id, one in use
\* included.  The payload is a decoded TaxonomyPayload, with all its fields.
AddTaxonomy ==
    \E payload \in TaxonomyPayloads, uuid \in Ids, t1 \in now..MaxTime :
        \E t2 \in t1..MaxTime :
            LET out == addTaxonomy(payload, uuid, t1, t2)
            IN  /\ Update("addTaxonomy", <<payload>>, out, t2)
                /\ issued' = IF isOk(out.res)
                             THEN [issued EXCEPT !.taxonomy = @ \cup {out.res.Ok.id}]
                             ELSE issued
                /\ UNCHANGED snapshot

UpdateTaxonomy ==
    \E id \in Ids, payload \in TaxonomyPayloads, t \in now..MaxTime :
        /\ Update("updateTaxonomy", <<id, payload>>,
                  updateTaxonomy(id, payload, t), t)
        /\ UNCHANGED <<snapshot, issued>>

DeleteTaxonomy ==
    \E id \in Ids :
        /\ Update("deleteTaxonomy", <<id>>, deleteTaxonomy(id), now)
        /\ UNCHANGED <<snapshot, issued>>

GetMarineSpecies == Query("getMarineSpecies", <<>>, getMarineSpecies)

GetMarineSpecie == \E id \in Ids : Query("getMarineSpecie", <<id>>, getMarineSpecie(id))

\* as AddTaxonomy for uuid; the payload is a decoded MarineSpeciePayload
AddMarineSpecie ==
    \E taxonomyId \in Ids, payload \in MarineSpeciePayloads, uuid \in Ids,
       t1 \in now..MaxTime :
        \E t2 \in t1..MaxTime :
            LET out == addMarineSpecie(taxonomyId, payload, uuid, t1, t2)
            IN  /\ Update("addMarineSpecie", <<taxonomyId, payload>>, out, t2)
                /\ issued' = IF isOk(out.res)
                             THEN [issued EXCEPT !.marineSpecie = @ \cup {out.res.Ok.id}]
                             ELSE issued
                /\ snapshot' = IF isOk(out.res)
                               THEN [snapshot EXCEPT ![out.res.Ok.id] =
                                         get(taxonomyStorage, taxonomyId)]
                               ELSE snapshot

UpdateMarineSpecie ==
    \E id \in Ids, payload \in MarineSpeciePayloads, t \in now..MaxTime :
        /\ Update("updateMarineSpecie", <<id, payload>>,
                  updateMarineSpecie(id, payload, t), t)
        /\ UNCHANGED <<snapshot, issued>>

DeleteMarineSpecie ==
    \E id \in Ids :
        LET out == deleteMarineSpecie(id)
        IN  /\ Update("deleteMarineSpecie", <<id>>, out, now)
            /\ snapshot' = IF isOk(out.res)
                           THEN [snapshot EXCEPT ![id] = None]
                           ELSE snapshot
            /\ UNCHANGED issued

RemoveTaxonomyFromMarineSpecie ==
    \E marineSpecieId \in Ids, taxonomyId \in Ids :
        LET out == removeTaxonomyFromMarineSpecie(marineSpecieId, taxonomyId)
        IN  /\ Update("removeTaxonomyFromMarineSpecie",
                      <<marineSpecieId, taxonomyId>>, out, now)
            /\ snapshot' = IF isOk(out.res)
                           THEN [snapshot EXCEPT ![marineSpecieId] =
                                     get(taxonomyStorage, taxonomyId)]
                           ELSE snapshot
            /\ UNCHANGED issued

AddTaxonomyToMarineSpecie ==
    \E marineSpecieId \in Ids, taxonomyId \in Ids :
        LET out == addTaxonomyToMarineSpecie(marineSpecieId, taxonomyId)
        IN  /\ Update("addTaxonomyToMarineSpecie",
                      <<marineSpecieId, taxonomyId>>, out, now)
            /\ snapshot' = IF isOk(out.res)
                           THEN [snapshot EXCEPT ![marineSpecieId] =
                                     get(taxonomyStorage, taxonomyId)]
                           ELSE snapshot
            /\ UNCHANGED issued

SortMarineSpeciesByTaxonomyKingdom ==
    Query("sortMarineSpeciesByTaxonomyKingdom", <<>>,
          sortMarineSpeciesByTaxonomyKingdom)

SortMarineSpeciesByTaxonomyKingdomDesc ==
    Query("sortMarineSpeciesByTaxonomyKingdomDesc", <<>>,
          sortMarineSpeciesByTaxonomyKingdomDesc)

SearchMarineSpeciesByTaxonomyKingdomOrPhylum ==
    \E searchText \in SearchTexts :
        Query("searchMarineSpeciesByTaxonomyKingdomOrPhylum", <<searchText>>,
              searchMarineSpeciesByTaxonomyKingdomOrPhylum(searchText))

SortMarineSpeciesByTimeOfCreation ==
    Query("sortMarineSpeciesByTimeOfCreation", <<>>,
          sortMarineSpeciesByTimeOfCreation)

UpdateMarineSpecieName ==
    \E id \in Ids, name \in Texts, t \in now..MaxTime :
        /\ Update("updateMarineSpecieName", <<id, name>>,
                  updateMarineSpecieName(id, name, t), t)
        /\ UNCHANGED <<snapshot, issued>>

UpdateMarineSpecieDescription ==
    \E id \in Ids, description \in Texts, t \in now..MaxTime :
        /\ Update("updateMarineSpecieDescription", <<id, description>>,
                  updateMarineSpecieDescription(id, description, t), t)
        /\ UNCHANGED <<snapshot, issued>>

SearchMarineSpeciesByName ==
    \E name \in SearchTexts :
        Query("searchMarineSpeciesByName", <<name>>, searchMarineSpeciesByName(name))

SearchMarineSpeciesByGenus ==
    \E genus \in SearchTexts :
        Query("searchMarineSpeciesByGenus", <<genus>>,
              searchMarineSpeciesByGenus(genus))

SearchTaxonomiesByClass ==
    \E taxonClass \in SearchTexts :
        Query("searchTaxonomiesByClass", <<taxonClass>>,
              searchTaxonomiesByClass(taxonClass))

Next ==
    \/ GetTaxonomies
    \/ GetTaxonomy
    \/ AddTaxonomy
    \/ UpdateTaxonomy
    \/ DeleteTaxonomy
    \/ GetMarineSpecies
    \/ GetMarineSpecie
    \/ AddMarineSpecie
    \/ UpdateMarineSpecie
    \/ DeleteMarineSpecie
    \/ RemoveTaxonomyFromMarineSpecie
    \/ AddTaxonomyToMarineSpecie
    \/ SortMarineSpeciesByTaxonomyKingdom
    \/ SortMarineSpeciesByTaxonomyKingdomDesc
    \/ SearchMarineSpeciesByTaxonomyKingdomOrPhylum
    \/ SortMarineSpeciesByTimeOfCreation
    \/ UpdateMarineSpecieName
    \/ UpdateMarineSpecieDescription
    \/ SearchMarineSpeciesByName
    \/ SearchMarineSpeciesByGenus
    \/ SearchTaxonomiesByClass

Spec == Init /\ [][Next]_vars

(* ----------------------------- properties ------------------------------ *)

QueryOps ==
    {"getTaxonomies", "getTaxonomy", "getMarineSpecies", "getMarineSpecie",
     "sortMarineSpeciesByTaxonomyKingdom", "sortMarineSpeciesByTaxonomyKingdomDesc",
     "sortMarineSpeciesByTimeOfCreation",
     "searchMarineSpeciesByTaxonomyKingdomOrPhylum", "searchMarineSpeciesByName",
     "searchMarineSpeciesByGenus", "searchTaxonomiesByClass"}

AssociationOps == {"addTaxonomyToMarineSpecie", "removeTaxonomyFromMarineSpecie"}

MarineSpecieUpdateOps ==
    {"updateMarineSpecie", "updateMarineSpecieName", "updateMarineSpecieDescription"}

StoresUnchanged ==
    /\ taxonomyStorage' = taxonomyStorage
    /\ marineSpecieStorage' = marineSpecieStorage

\* C1: addMarineSpecie with a taxonomyId that is not a key of the taxonomy
\* store returns NotFound and leaves both stores (contents and size) as they
\* were.
C1_AddUnknownTaxonomy ==
    [][(/\ last'.op = "addMarineSpecie"
        /\ last'.args[1] \notin keys(taxonomyStorage))
       => /\ isNotFound(last'.res)
          /\ StoresUnchanged
          /\ Len(marineSpecieStorage') = Len(marineSpecieStorage)]_vars

\* an addMarineSpecie named an absent taxonomy while another one is stored
C1_Witness ==
    /\ last.op = "addMarineSpecie"
    /\ last.args[1] \notin keys(taxonomyStorage)
    /\ isNotFound(last.res)
    /\ Len(taxonomyStorage) > 0

SnapshotKept ==
    \A i \in 1..Len(marineSpecieStorage) :
        snapshot[marineSpecieStorage[i].key]
            = Some(marineSpecieStorage[i].value.taxonomy)

\* C2: updateTaxonomy and deleteTaxonomy leave the marine specie store
\* unchanged, and the taxonomy embedded in every stored marine specie is the
\* taxonomy record as it was read by the most recent addMarineSpecie,
\* addTaxonomyToMarineSpecie or removeTaxonomyFromMarineSpecie on that specie.
C2_Snapshot ==
    /\ []SnapshotKept
    /\ [][last'.op \in {"updateTaxonomy", "deleteTaxonomy"}
          => marineSpecieStorage' = marineSpecieStorage]_vars

\* a taxonomy was edited or deleted after a stored marine specie copied it
C2_Witness ==
    /\ last.op \in {"updateTaxonomy", "deleteTaxonomy"}
    /\ isOk(last.res)
    /\ \E i \in 1..Len(marineSpecieStorage) :
          /\ marineSpecieStorage[i].value.taxonomy.id = last.args[1]
          /\ get(taxonomyStorage, last.args[1])
                # Some(marineSpecieStorage[i].value.taxonomy)

\* C3: from any state and for any (specieId, taxonomyId),
\* removeTaxonomyFromMarineSpecie and addTaxonomyToMarineSpecie leave the same
\* stores and return the same kind of outcome (the same record, or NotFound);
\* when both ids resolve the embedded taxonomy of the result is the current
\* taxonomy-store record of taxonomyId.
C3_RemoveIsAdd ==
    /\ \A sid \in Ids, tid \in Ids :
          LET r == removeTaxonomyFromMarineSpecie(sid, tid)
              a == addTaxonomyToMarineSpecie(sid, tid)
          IN  /\ r.taxonomyStorage = a.taxonomyStorage
              /\ r.marineSpecieStorage = a.marineSpecieStorage
              /\ isOk(r.res) = isOk(a.res)
              /\ isNotFound(r.res) = isNotFound(a.res)
              /\ isOk(r.res) => r.res.Ok = a.res.Ok
              /\ (sid \in keys(marineSpecieStorage) /\ tid \in keys(taxonomyStorage))
                 => /\ isOk(r.res)
                    /\ Some(r.res.Ok.taxonomy) = get(taxonomyStorage, tid)
                    /\ get(r.marineSpecieStorage, sid) = Some(r.res.Ok)
    /\ (last.op \in AssociationOps /\ isOk(last.res))
       => /\ Some(last.res.Ok.taxonomy) = get(taxonomyStorage, last.args[2])
          /\ get(marineSpecieStorage, last.args[1]) = Some(last.res.Ok)

\* removeTaxonomyFromMarineSpecie succeeded, and the taxonomy it embedded was
\* edited after the specie was last stamped, so it replaced an older snapshot
C3_Witness ==
    /\ last.op = "removeTaxonomyFromMarineSpecie"
    /\ isOk(last.res)
    /\ getTime(last.res.Ok.taxonomy.updated_at) > getTime(last.res.Ok.updated_at)

\* C4: get returns NotFound for every id that is not a key; after a
\* successful add, get of the returned id returns the added record; after a
\* successful update, get returns the updated record; after a successful
\* delete, get returns NotFound.
C4_GetAgrees ==
    /\ \A id \in Ids :
          /\ id \notin keys(taxonomyStorage) => isNotFound(getTaxonomy(id).res)
          /\ id \notin keys(marineSpecieStorage) => isNotFound(getMarineSpecie(id).res)
    /\ (last.op = "addTaxonomy" /\ isOk(last.res))
       => getTaxonomy(last.res.Ok.id).res = last.res
    /\ (last.op = "updateTaxonomy" /\ isOk(last.res))
       => getTaxonomy(last.args[1]).res = last.res
    /\ (last.op = "deleteTaxonomy" /\ isOk(last.res))
       => isNotFound(getTaxonomy(last.args[1]).res)
    /\ (last.op = "addMarineSpecie" /\ isOk(last.res))
       => getMarineSpecie(last.res.Ok.id).res = last.res
    /\ (last.op \in MarineSpecieUpdateOps /\ isOk(last.res))
       => getMarineSpecie(last.args[1]).res = last.res
    /\ (last.op = "deleteMarineSpecie" /\ isOk(last.res))
       => isNotFound(getMarineSpecie(last.args[1]).res)

\* a marine specie was deleted while another one stays in the store
C4_Witness ==
    /\ last.op = "deleteMarineSpecie"
    /\ isOk(last.res)
    /\ Len(marineSpecieStorage) > 0

\* C5: every successful add returns an id that no add on that store returned
\* before, and makes that store one record longer.
C5_FreshId ==
    [][/\ (last'.op = "addTaxonomy" /\ isOk(last'.res))
          => /\ last'.res.Ok.id \notin issued.taxonomy
             /\ Len(taxonomyStorage') = Len(taxonomyStorage) + 1
       /\ (last'.op = "addMarineSpecie" /\ isOk(last'.res))
          => /\ last'.res.Ok.id \notin issued.marineSpecie
             /\ Len(marineSpecieStorage') = Len(marineSpecieStorage) + 1]_vars

\* C6: every record of the taxonomy store and of the marine specie store has
\* updated_at >= created_at.
C6_UpdatedNotBeforeCreated ==
    /\ \A i \in 1..Len(taxonomyStorage) :
          getTime(taxonomyStorage[i].value.updated_at)
              >= getTime(taxonomyStorage[i].value.created_at)
    /\ \A i \in 1..Len(marineSpecieStorage) :
          getTime(marineSpecieStorage[i].value.updated_at)
              >= getTime(marineSpecieStorage[i].value.created_at)

\* an association re-stored a marine specie, without stamping it, around a
\* taxonomy edited later than the specie
C6_Witness ==
    /\ last.op = "addTaxonomyToMarineSpecie"
    /\ isOk(last.res)
    /\ getTime(last.res.Ok.taxonomy.updated_at) > getTime(last.res.Ok.updated_at)
    /\ getTime(last.res.Ok.taxonomy.updated_at)
           > getTime(last.res.Ok.taxonomy.created_at)

IdIsKey ==
    /\ \A i \in 1..Len(taxonomyStorage) :
          taxonomyStorage[i].value.id = taxonomyStorage[i].key
    /\ \A i \in 1..Len(marineSpecieStorage) :
          marineSpecieStorage[i].value.id = marineSpecieStorage[i].key

\* C7: every record is stored under its own id, and updateTaxonomy,
\* updateMarineSpecie, updateMarineSpecieName, updateMarineSpecieDescription,
\* addTaxonomyToMarineSpecie and removeTaxonomyFromMarineSpecie keep the id
\* and the created_at of every record that exists.
C7_IdImmutable ==
    /\ []IdIsKey
    /\ [][last'.op \in {"updateTaxonomy"} \cup MarineSpecieUpdateOps \cup AssociationOps
          => /\ \A i \in 1..Len(taxonomyStorage) :
                   LET after == get(taxonomyStorage', taxonomyStorage[i].key)
                   IN  /\ "Some" \in DOMAIN after
                       /\ after.Some.id = taxonomyStorage[i].value.id
                       /\ after.Some.created_at = taxonomyStorage[i].value.created_at
             /\ \A i \in 1..Len(marineSpecieStorage) :
                   LET after == get(marineSpecieStorage', marineSpecieStorage[i].key)
                   IN  /\ "Some" \in DOMAIN after
                       /\ after.Some.id = marineSpecieStorage[i].value.id
                       /\ after.Some.created_at
                              = marineSpecieStorage[i].value.created_at]_vars

\* a taxonomy was updated at a later instant than the one it was created at
C7_Witness ==
    /\ last.op = "updateTaxonomy"
    /\ isOk(last.res)
    /\ getTime(last.res.Ok.updated_at) > getTime(last.res.Ok.created_at)

\* C8: a query leaves both stores as they were, the order of their entries
\* included, and a query repeated with the same argument right after itself
\* returns the same value.
C8_QueriesPure ==
    [][last'.op \in QueryOps
       => /\ StoresUnchanged
          /\ (last.op = last'.op /\ last.args = last'.args)
             => last'.res = last.res]_vars

\* the descending sort ran twice in a row and returned an order other than
\* the order of the store
C8_Witness ==
    /\ last.op = "sortMarineSpeciesByTaxonomyKingdomDesc"
    /\ last.repeat
    /\ Len(last.res) > 1
    /\ last.res # values(marineSpecieStorage)

\* C9: updateTaxonomy, deleteTaxonomy, updateMarineSpecie,
\* updateMarineSpecieName, updateMarineSpecieDescription, deleteMarineSpecie,
\* addTaxonomyToMarineSpecie and removeTaxonomyFromMarineSpecie leave both
\* stores unchanged whenever they return NotFound.
C9_NotFoundChangesNothing ==
    [][(/\ last'.op \in {"updateTaxonomy", "deleteTaxonomy", "deleteMarineSpecie"}
                           \cup MarineSpecieUpdateOps \cup AssociationOps
        /\ isNotFound(last'.res))
       => StoresUnchanged]_vars

\* addTaxonomyToMarineSpecie found the specie and not the taxonomy
C9_Witness ==
    /\ last.op = "addTaxonomyToMarineSpecie"
    /\ isNotFound(last.res)
    /\ last.args[1] \in keys(marineSpecieStorage)
    /\ last.args[2] \notin keys(taxonomyStorage)

\* The step is what updateMarineSpecie does, at some instant, for payload.
AsUpdateMarineSpecie(id, payload) ==
    \E t \in Times :
        LET out == updateMarineSpecie(id, payload, t)
        IN  /\ taxonomyStorage' = out.taxonomyStorage
            /\ marineSpecieStorage' = out.marineSpecieStorage
            /\ last'.res = out.res

\* C10: on an existing specie updateMarineSpecieName changes the name and
\* updated_at of that record and nothing else in either store, and
\* updateMarineSpecieDescription the description and updated_at; the outcome
\* is the one of updateMarineSpecie for a payload of the new value and the
\* record's current other field.
C10_SingleField ==
    [][/\ (last'.op = "updateMarineSpecieName" /\ isOk(last'.res))
          => LET id == last'.args[1]
                 old == get(marineSpecieStorage, id).Some
                 new == last'.res.Ok
             IN  /\ taxonomyStorage' = taxonomyStorage
                 /\ new = [old EXCEPT !.name = last'.args[2],
                                      !.updated_at = new.updated_at]
                 /\ marineSpecieStorage' = insert(marineSpecieStorage, id, new)
                 /\ AsUpdateMarineSpecie(id, [name |-> last'.args[2],
                                              description |-> old.description])
       /\ (last'.op = "updateMarineSpecieDescription" /\ isOk(last'.res))
          => LET id == last'.args[1]
                 old == get(marineSpecieStorage, id).Some
                 new == last'.res.Ok
             IN  /\ taxonomyStorage' = taxonomyStorage
                 /\ new = [old EXCEPT !.description = last'.args[2],
                                      !.updated_at = new.updated_at]
                 /\ marineSpecieStorage' = insert(marineSpecieStorage, id, new)
                 /\ AsUpdateMarineSpecie(id, [name |-> old.name,
                                              description |-> last'.args[2]])]_vars

\* the name of one of two stored marine species was updated
C10_Witness ==
    /\ last.op = "updateMarineSpecieName"
    /\ isOk(last.res)
    /\ Len(marineSpecieStorage) > 1
    /\ last.res.Ok.name # last.res.Ok.description

====
